---- MODULE Spec2Model ----
(***************************************************************************)
(* Inventory allocation and stock ledger of the shipment manager           *)
(* (src/ShipmentManager.py): the SQLite store, the aggregation queries of  *)
(* the listing widgets, the shipment draft of AddShipmentDialog and the    *)
(* direct-sale / transfer / return handlers.                               *)
(*                                                                         *)
(* Quantities and prices are entered through QSpinBox / QDoubleSpinBox     *)
(* widgets with two decimals.  A quantity or price is written here in      *)
(* hundredths (100 = 1.00).  The draft arithmetic of the dialog is done by *)
(* the code on Python floats (IEEE-754 binary64); it is modelled exactly   *)
(* by the operators F* below.                                              *)
(***************************************************************************)
EXTENDS Integers, Sequences, FiniteSets, TLC

(***************************************************************************)
(* Bounds of the model.                                                    *)
(***************************************************************************)
MaxShipments == 2      \* rows of the shipments table (the seed shipment included)
MaxRows == 3           \* event rows written or drafted after initialization
MaxDraftRows == 5      \* SpecSave: line items and farmers of one draft
MaxSaved == 3          \* SpecSave: rows of the shipments table, failed saves included
MaxCatalog == 2        \* SpecCatalog: products and farmers added after initialization
MaxStore == 3          \* SpecStore: event rows written after initialization
MaxHistory == 3        \* SpecHistory: event rows written or drafted after initialization
MaxForm == 3           \* SpecForm: line items and farmers of one draft
MaxSummary == 4        \* SpecSummary: line items and farmers of one draft

(***************************************************************************)
(* IEEE-754 binary64 arithmetic on multiples of 0.01.                      *)
(*                                                                         *)
(* A float is [k, c]: its value is (k * 2^57 + c) / (25 * 2^59), that is   *)
(* k/100 plus the representation error c / (25 * 2^59).  k is the decimal  *)
(* value in hundredths, c the accumulated rounding error; c = 0 exactly    *)
(* when the float equals the decimal k/100.  Sums are exact in (k, c) and  *)
(* are then rounded to 53 significant bits, round-half-to-even, as the     *)
(* hardware does.                                                          *)
(***************************************************************************)
RECURSIVE Pow2(_)
Pow2(n) == IF n = 0 THEN 1 ELSE 2 * Pow2(n - 1)

RECURSIVE Pow2Mod25(_)
Pow2Mod25(n) == IF n = 0 THEN 1 ELSE (2 * Pow2Mod25(n - 1)) % 25

\* value of [k, c] >= 2^e
FGePow2(k, c, e) ==
    IF e >= 0
    THEN k > 100 * Pow2(e) \/ (k = 100 * Pow2(e) /\ c >= 0)
    ELSE k * Pow2(0 - e) > 100 \/ (k * Pow2(0 - e) = 100 /\ c >= 0)

\* the binary exponent e of a positive value: 2^e <= value < 2^(e+1)
RECURSIVE FExponentFrom(_, _, _)
FExponentFrom(k, c, e) ==
    IF FGePow2(k, c, e + 1) THEN FExponentFrom(k, c, e + 1) ELSE e

FExponent(k, c) == FExponentFrom(k, c, 0 - 7)

\* the error term of the binary64 nearest to the exact value (k, c)
FRound(k, c) ==
    IF k = 0 THEN c
    ELSE LET e    == FExponent(k, c)
             U    == Pow2(e + 7)          \* one ulp, in units of 2^-59
             M    == 25 * U
             rem  == (U * ((k * Pow2Mod25(50 - e)) % 25) + c) % M
             rem2 == (2 * U * ((k * Pow2Mod25(49 - e)) % 25) + c) % (2 * M)
         IN  IF 2 * rem < M THEN c - rem
             ELSE IF 2 * rem > M THEN c + M - rem
             ELSE IF rem2 = rem THEN c - rem
             ELSE c + M - rem

\* float(n) of a Python int n (QSpinBox.value()), exact
FInt(n) == [k |-> 100 * n, c |-> 0]

\* QDoubleSpinBox.value() showing k hundredths: the binary64 nearest to k/100
FSpin(k) == [k |-> k, c |-> FRound(k, 0)]

\* a + b
FAdd(a, b) == [k |-> a.k + b.k, c |-> FRound(a.k + b.k, a.c + b.c)]

\* a > b, a == b
FGt(a, b) == a.k > b.k \/ (a.k = b.k /\ a.c > b.c)
FEq(a, b) == a.k = b.k /\ a.c = b.c


(***************************************************************************)
(* The store: one sequence per table, a row's id is its index              *)
(* (INTEGER PRIMARY KEY AUTOINCREMENT, and no row is ever deleted).        *)
(***************************************************************************)
VARIABLES
    products,            \* products.name, by id
    farmers,             \* farmers.name, by id
    shipments,           \* shipments.notes, by id
    shipment_products,   \* [shipment_id, product_id, unit_price, quantity, subtotal]
    farmer_purchases,    \* [shipment_id, farmer_id, product_id, quantity, unit_price, total_paid]
    transfers,           \* [from_farmer_id, to_farmer_id, product_id, quantity]
    returns,             \* [farmer_id, product_id, quantity, refund_amount]
    dialog,              \* "closed", or "open" while an AddShipmentDialog is shown
    draft,               \* AddShipmentDialog.products
    spin,                \* the values the program last gave the dialog's spin boxes
    current_product_idx, \* AddShipmentDialog.current_product_idx (NULL for None)
    pc,                  \* "idle", or "saving" between two inserts of save_shipment
    shipment_id,         \* save_shipment's local shipment_id (NULL before it is set)
    next_i,              \* save_shipment: index in draft of the line item being written
    next_j,              \* save_shipment: 0 = its row is next, j = its j-th farmer is next
    stock_data,          \* the rows ManageWidget.table shows: load_stock's last result
    msg,                 \* the message box of the last handler: [text, name, number]
    logged_in,           \* the username LoginDialog accepted ("" before login)
    current_user,        \* current_user of the ShipmentsWidget / ProductsWidget of
                         \* ui_widgets_1 that main.py shows: [username, role]
    view                 \* the widget in MainWindow's content area ("" without window)

store == <<products, farmers, shipments, shipment_products, farmer_purchases,
           transfers, returns>>
ui == <<dialog, draft, spin, current_product_idx, pc, shipment_id, next_i, next_j,
        stock_data>>
session == <<logged_in, current_user, view>>
vars == <<store, ui, msg, session>>

\* SQL NULL of an integer column, Python None of an index
NULL == 0

\* a message box with its text, the product it names and the number it shows
Message(text, name, number) == [text |-> text, name |-> name, number |-> number]
NoMessage == Message("", "", 0)

\* no widget of ui_widgets_1 has been built: nobody holds a role
NoUser == [username |-> "", role |-> ""]

\* a database: the seven tables as one record
Db(p, f, s, sp, fp, t, r) ==
    [products |-> p, farmers |-> f, shipments |-> s, shipment_products |-> sp,
     farmer_purchases |-> fp, transfers |-> t, returns |-> r]

EmptyDb == Db(<<>>, <<>>, <<>>, <<>>, <<>>, <<>>, <<>>)

\* init_database, had it written the seed rows on every start
init_database_unguarded(db) ==
    [db EXCEPT
        !.products = <<"Tomato", "Potato", "Onion">>,
        !.farmers = <<"Farmer A", "Farmer B", "Farmer C">>,
        !.shipments = Append(db.shipments, "Sample shipment"),
        !.shipment_products = Append(db.shipment_products,
            [shipment_id |-> Len(db.shipments) + 1, product_id |-> 1,
             unit_price |-> 5000, quantity |-> 100, subtotal |-> 50000000]),
        !.farmer_purchases = Append(db.farmer_purchases,
            [shipment_id |-> Len(db.shipments) + 1, farmer_id |-> 1,
             product_id |-> 1, quantity |-> 5000, unit_price |-> 6500,
             total_paid |-> 32500000])]

\* Database.init_database: the seed rows, written only when products is empty
init_database(db) ==
    IF Len(db.products) = 0
    THEN [db EXCEPT
            !.products = <<"Tomato", "Potato", "Onion">>,
            !.farmers = <<"Farmer A", "Farmer B", "Farmer C">>,
            !.shipments = Append(db.shipments, "Sample shipment"),
            !.shipment_products = Append(db.shipment_products,
                [shipment_id |-> Len(db.shipments) + 1, product_id |-> 1,
                 unit_price |-> 5000, quantity |-> 100, subtotal |-> 50000000]),
            !.farmer_purchases = Append(db.farmer_purchases,
                [shipment_id |-> Len(db.shipments) + 1, farmer_id |-> 1,
                 product_id |-> 1, quantity |-> 5000, unit_price |-> 6500,
                 total_paid |-> 32500000])]
    ELSE db

CurrentDb == Db(products, farmers, shipments, shipment_products,
                farmer_purchases, transfers, returns)

\* the store becomes db
StoreIs(db) ==
    /\ products' = db.products
    /\ farmers' = db.farmers
    /\ shipments' = db.shipments
    /\ shipment_products' = db.shipment_products
    /\ farmer_purchases' = db.farmer_purchases
    /\ transfers' = db.transfers
    /\ returns' = db.returns

ProductIds == 1..Len(products)
FarmerIds == 1..Len(farmers)

(***************************************************************************)
(* Foreign keys.  get_connection sets PRAGMA foreign_keys = ON on every    *)
(* connection, so an INSERT raises "FOREIGN KEY constraint failed" when a  *)
(* column declared REFERENCES holds a value that is no id of the parent    *)
(* table.  A NULL key references nothing and is accepted.                  *)
(***************************************************************************)
\* the REFERENCES check with the pragma left off (SQLite's default)
ForeignKey_off(id, parent) == TRUE

ForeignKey(id, parent) == id = NULL \/ id \in 1..Len(parent)

\* the REFERENCES clauses of each table, on a row about to be inserted
shipment_products_references(row) ==
    /\ ForeignKey(row.shipment_id, shipments)
    /\ ForeignKey(row.product_id, products)

farmer_purchases_references(row) ==
    /\ ForeignKey(row.shipment_id, shipments)
    /\ ForeignKey(row.farmer_id, farmers)
    /\ ForeignKey(row.product_id, products)

transfers_references(row) ==
    /\ ForeignKey(row.from_farmer_id, farmers)
    /\ ForeignKey(row.to_farmer_id, farmers)
    /\ ForeignKey(row.product_id, products)

returns_references(row) ==
    /\ ForeignKey(row.farmer_id, farmers)
    /\ ForeignKey(row.product_id, products)

\* the text of the exception execute_update raises, shown after the handler's
\* "Failed to ...": ok is whether the database is otherwise available (when it is
\* not, "database is locked" stands for the sqlite3 error raised)
ErrorText(ok, references) ==
    IF ~ok THEN "database is locked"
    ELSE IF ~references THEN "FOREIGN KEY constraint failed"
    ELSE ""

(***************************************************************************)
(* Aggregation queries.  A quantity is in hundredths; shipment_products    *)
(* holds whole units (INTEGER), so its quantity counts 100 each.  Money    *)
(* (price times quantity) is in units of 0.0001.                           *)
(***************************************************************************)
RECURSIVE SumQuantity(_)
SumQuantity(rows) ==
    IF rows = <<>> THEN 0 ELSE Head(rows).quantity + SumQuantity(Tail(rows))

\* the rows an inner JOIN would pair one row with
JoinRows_inner(n) == n

\* rows a LEFT JOIN contributes for n matching rows: one all-NULL row when none
JoinRows(n) == IF n = 0 THEN 1 ELSE n

\* SELECT ... FROM products p LEFT JOIN sp LEFT JOIN fp LEFT JOIN r GROUP BY p.id,
\* for product p over the joined rows sp x fp x r
StockRow(p, sp, fp, r) ==
    LET bought   == 100 * SumQuantity(sp) * JoinRows(Len(fp)) * JoinRows(Len(r))
        sold     == SumQuantity(fp) * JoinRows(Len(sp)) * JoinRows(Len(r))
        returned == SumQuantity(r) * JoinRows(Len(sp)) * JoinRows(Len(fp))
    IN  [name |-> products[p], total_bought |-> bought, total_sold |-> sold,
         current_stock |-> bought - sold - returned]

OfProduct(rows, p) == SelectSeq(rows, LAMBDA row : row.product_id = p)

\* load_stock, had it charged the product's transfers against the stock
load_stock_minus_transfers(p) ==
    LET row == StockRow(p, OfProduct(shipment_products, p),
                        SelectSeq(farmer_purchases,
                            LAMBDA fp : fp.product_id = p /\ fp.shipment_id # NULL),
                        OfProduct(returns, p))
    IN  [row EXCEPT !.current_stock = @ - SumQuantity(OfProduct(transfers, p))]

\* ManageWidget.load_stock: farmer purchases joined only when shipment_id IS NOT NULL
load_stock(p) ==
    StockRow(p, OfProduct(shipment_products, p),
             SelectSeq(farmer_purchases,
                       LAMBDA row : row.product_id = p /\ row.shipment_id # NULL),
             OfProduct(returns, p))

\* ProductsWidget.load_products: every farmer purchase of the product is joined
load_products(p) ==
    StockRow(p, OfProduct(shipment_products, p), OfProduct(farmer_purchases, p),
             OfProduct(returns, p))

RECURSIVE SumTotalPaid(_)
SumTotalPaid(rows) ==
    IF rows = <<>> THEN 0 ELSE Head(rows).total_paid + SumTotalPaid(Tail(rows))

\* ShipmentsWidget.load_shipments, the row of shipment s: shipments LEFT JOIN
\* shipment_products LEFT JOIN farmer_purchases, GROUP BY s.id; SUM(fp.total_paid)
\* runs over the joined rows, one per pair of a line item and a purchase
load_shipments(s) ==
    LET sp == SelectSeq(shipment_products, LAMBDA row : row.shipment_id = s)
        fp == SelectSeq(farmer_purchases, LAMBDA row : row.shipment_id = s)
    IN  [id |-> s,
         product_count |-> Cardinality({sp[i].product_id : i \in 1..Len(sp)}),
         farmer_count |-> Cardinality({fp[i].farmer_id : i \in 1..Len(fp)}),
         total_paid |-> SumTotalPaid(fp) * JoinRows(Len(sp))]

\* load_farmers, had it joined the purchases of shipments only
load_farmers_of_shipments(f) ==
    [name |-> farmers[f],
     total_bought |-> SumTotalPaid(SelectSeq(farmer_purchases,
                          LAMBDA row : row.farmer_id = f /\ row.shipment_id # NULL))]

\* FarmersWidget.load_farmers: COALESCE(SUM(fp.total_paid), 0) of farmer f
load_farmers(f) ==
    [name |-> farmers[f],
     total_bought |-> SumTotalPaid(SelectSeq(farmer_purchases,
                                             LAMBDA row : row.farmer_id = f))]

\* the rows of the stock query: one per product that the joins give a row
StockData ==
    [p \in {q \in ProductIds :
                JoinRows(Len(OfProduct(shipment_products, q)))
                * JoinRows(Len(SelectSeq(farmer_purchases,
                      LAMBDA row : row.product_id = q /\ row.shipment_id # NULL)))
                * JoinRows(Len(OfProduct(returns, q))) > 0}
        |-> load_stock(p)]

\* the rows of the product listing
ProductsData ==
    [p \in {q \in ProductIds :
                JoinRows(Len(OfProduct(shipment_products, q)))
                * JoinRows(Len(OfProduct(farmer_purchases, q)))
                * JoinRows(Len(OfProduct(returns, q))) > 0}
        |-> load_products(p)]

\* a spin box that keeps any value it is given
setValue_unbound(minimum, maximum, val) == val

\* QSpinBox / QDoubleSpinBox.setValue, and setRange on the value shown: the value
\* is bound to the range [minimum, maximum]
setValue(minimum, maximum, val) ==
    IF val < minimum THEN minimum ELSE IF val > maximum THEN maximum ELSE val

\* the spin boxes of AddShipmentDialog: without a dialog, and as init_ui builds
\* them (a new spin box shows 0 and setRange binds it): unit price, farmer
\* quantity and selling price in hundredths, quantity in whole units
NoForm ==
    [unit_price_spin |-> 0, quantity_spin |-> 0, farmer_quantity_spin |-> 0,
     selling_price_spin |-> 0]

init_ui ==
    [unit_price_spin |-> setValue(1, 1000000, 0),
     quantity_spin |-> setValue(1, 10000, 0),
     farmer_quantity_spin |-> setValue(1, 1000000, 0),
     selling_price_spin |-> setValue(1, 1000000, 0)]

Init ==
    /\ products = init_database(EmptyDb).products
    /\ farmers = init_database(EmptyDb).farmers
    /\ shipments = init_database(EmptyDb).shipments
    /\ shipment_products = init_database(EmptyDb).shipment_products
    /\ farmer_purchases = init_database(EmptyDb).farmer_purchases
    /\ transfers = init_database(EmptyDb).transfers
    /\ returns = init_database(EmptyDb).returns
    /\ dialog = "closed"
    /\ draft = <<>>
    /\ spin = NoForm
    /\ current_product_idx = NULL
    /\ pc = "idle"
    /\ shipment_id = NULL
    /\ next_i = 0
    /\ next_j = 0
    /\ stock_data = <<>>
    /\ msg = NoMessage
    /\ logged_in = ""
    /\ current_user = NoUser
    /\ view = ""


(***************************************************************************)
(* AddShipmentDialog: the shipment draft.                                  *)
(***************************************************************************)
\* rows written to the event tables since initialization, rows of the draft
RowsWritten ==
    Len(shipment_products) + Len(farmer_purchases) + Len(transfers) + Len(returns)
    - Len(init_database(EmptyDb).shipment_products)
    - Len(init_database(EmptyDb).farmer_purchases)

RECURSIVE DraftRows(_)
DraftRows(d) ==
    IF d = <<>> THEN 0 ELSE 1 + Len(Head(d).farmers) + DraftRows(Tail(d))

\* the model's cap on rows: one more row may be written or drafted
Room == RowsWritten + DraftRows(draft) < MaxRows

\* the model's cap on shipments: one more shipment may be recorded
ShipmentRoom == Len(shipments) < MaxShipments

\* sum(f['quantity'] for f in product['farmers']): a float sum from 0, left to right
RECURSIVE FSum(_)
FSum(rows) ==
    IF rows = <<>> THEN FInt(0)
    ELSE FAdd(FSum(SubSeq(rows, 1, Len(rows) - 1)), FSpin(rows[Len(rows)].quantity))

total_assigned(product) == FSum(product.farmers)

\* add_product_to_shipment with an id comparison that never matches
ProductInDraft_never(d, product_id) == FALSE

\* add_product_to_shipment: "if product['product_id'] == product_id"
ProductInDraft(d, product_id) ==
    \E i \in 1..Len(d) : d[i].product_id = product_id

\* assign_to_farmer with an id comparison that never matches
FarmerAssigned_never(product, farmer_id) == FALSE

\* assign_to_farmer: "if farmer['farmer_id'] == farmer_id"
FarmerAssigned(product, farmer_id) ==
    \E j \in 1..Len(product.farmers) : product.farmers[j].farmer_id = farmer_id

\* assign_to_farmer, had it no test of the quantity that remains
ExceedsAvailable_never(product, quantity) == FALSE

\* assign_to_farmer: "if total_assigned + quantity > product['quantity']"
ExceedsAvailable(product, quantity) ==
    FGt(FAdd(total_assigned(product), FSpin(quantity)), FInt(product.quantity))

\* f"{product['quantity'] - total_assigned:.2f}": the difference is within 2^-40 of
\* the decimal difference, so the two decimals printed are those of the decimals
Remaining(product) == 100 * product.quantity - total_assigned(product).k

\* save_shipment: "if total_assigned != product['quantity']"
FullyAssigned(product) == FEq(total_assigned(product), FInt(product.quantity))

\* ShipmentsWidget.add_shipment: AddShipmentDialog(self.db, self).exec()
add_shipment ==
    /\ dialog = "closed" /\ pc = "idle"
    /\ dialog' = "open"
    /\ draft' = <<>>
    /\ spin' = init_ui
    /\ current_product_idx' = NULL
    /\ msg' = NoMessage
    /\ UNCHANGED <<store, pc, shipment_id, next_i, next_j, stock_data>>
    /\ UNCHANGED session

\* add_product_to_shipment writing the line item to the store as it is drafted
add_product_to_shipment_stored(product_id, unit_price, quantity) ==
    /\ dialog = "open" /\ pc = "idle"
    /\ draft' = Append(draft,
           [product_id |-> product_id, unit_price |-> unit_price,
            quantity |-> quantity, subtotal |-> unit_price * (100 * quantity),
            farmers |-> <<>>])
    /\ shipment_products' = Append(shipment_products,
           [shipment_id |-> NULL, product_id |-> product_id,
            unit_price |-> unit_price, quantity |-> quantity,
            subtotal |-> unit_price * (100 * quantity)])
    /\ spin' = [spin EXCEPT !.unit_price_spin = setValue(1, 1000000, 0),
                            !.quantity_spin = setValue(1, 10000, 1)]
    /\ msg' = NoMessage
    /\ UNCHANGED <<products, farmers, shipments, farmer_purchases, transfers, returns,
                   dialog, current_product_idx, pc, shipment_id, next_i, next_j,
                   stock_data>>
    /\ UNCHANGED session

\* add_product_to_shipment replacing the line item of a product already added
add_product_to_shipment_replacing(product_id, unit_price, quantity) ==
    /\ dialog = "open" /\ pc = "idle"
    /\ IF ProductInDraft(draft, product_id)
       THEN /\ draft' = [i \in 1..Len(draft) |->
                    IF draft[i].product_id = product_id
                    THEN [draft[i] EXCEPT !.quantity = quantity, !.farmers = <<>>]
                    ELSE draft[i]]
            /\ UNCHANGED spin
            /\ msg' = Message("Product already added to shipment", "", 0)
       ELSE /\ draft' = Append(draft,
                   [product_id |-> product_id, unit_price |-> unit_price,
                    quantity |-> quantity,
                    subtotal |-> unit_price * (100 * quantity),
                    farmers |-> <<>>])
            /\ msg' = NoMessage
            /\ spin' = [spin EXCEPT !.unit_price_spin = setValue(1, 1000000, 0),
                                    !.quantity_spin = setValue(1, 10000, 1)]
    /\ UNCHANGED <<store, dialog, current_product_idx, pc, shipment_id, next_i, next_j,
                   stock_data>>
    /\ UNCHANGED session

add_product_to_shipment(product_id, unit_price, quantity) ==
    /\ dialog = "open" /\ pc = "idle"
    /\ IF ProductInDraft(draft, product_id)
       THEN /\ msg' = Message("Product already added to shipment", "", 0)
            /\ UNCHANGED <<draft, spin>>
       ELSE /\ draft' = Append(draft,
                   [product_id |-> product_id, unit_price |-> unit_price,
                    quantity |-> quantity,
                    subtotal |-> unit_price * (100 * quantity),
                    farmers |-> <<>>])
            /\ msg' = NoMessage
            /\ spin' = [spin EXCEPT !.unit_price_spin = setValue(1, 1000000, 0),
                                    !.quantity_spin = setValue(1, 10000, 1)]
    /\ UNCHANGED <<store, dialog, current_product_idx, pc, shipment_id, next_i, next_j,
                   stock_data>>
    /\ UNCHANGED session

select_product_for_farmers(current_row) ==
    /\ dialog = "open" /\ pc = "idle"
    /\ current_row \in 1..Len(draft)
    /\ current_product_idx' = current_row
    /\ msg' = NoMessage
    /\ UNCHANGED <<store, dialog, draft, spin, pc, shipment_id, next_i, next_j,
                   stock_data>>
    /\ UNCHANGED session

assign_to_farmer(farmer_id, quantity, selling_price) ==
    /\ dialog = "open" /\ pc = "idle"
    /\ IF current_product_idx = NULL
       THEN /\ msg' = Message("Please select a product first", "", 0)
            /\ UNCHANGED <<draft, spin>>
       ELSE LET product == draft[current_product_idx]
            IN  IF FarmerAssigned(product, farmer_id)
                THEN /\ msg' = Message("Farmer already assigned to this product", "", 0)
                     /\ UNCHANGED <<draft, spin>>
                ELSE IF ExceedsAvailable(product, quantity)
                THEN /\ msg' = Message("Only units remaining for this product", "",
                                       Remaining(product))
                     /\ UNCHANGED <<draft, spin>>
                ELSE /\ draft' = [draft EXCEPT ![current_product_idx].farmers =
                            Append(@, [farmer_id |-> farmer_id, quantity |-> quantity,
                                       unit_price |-> selling_price,
                                       total_paid |-> quantity * selling_price])]
                     /\ msg' = NoMessage
                     /\ spin' = [spin EXCEPT !.farmer_quantity_spin = setValue(1, 1000000, 0),
                                             !.selling_price_spin = setValue(1, 1000000, 0)]
    /\ UNCHANGED <<store, dialog, current_product_idx, pc, shipment_id, next_i, next_j,
                   stock_data>>
    /\ UNCHANGED session

\* save_shipment with an emptiness test that never holds
NoProducts_never(d) == FALSE

\* save_shipment: "if not self.products"
NoProducts(d) == d = <<>>

\* the first line item of the draft that is not fully assigned
FirstUnassigned(d) ==
    CHOOSE i \in 1..Len(d) :
        /\ ~FullyAssigned(d[i])
        /\ \A h \in 1..(i - 1) : FullyAssigned(d[h])

\* save_shipment, from the click to the commit of INSERT INTO shipments; ok is
\* whether that execute_update succeeds
save_shipment(ok) ==
    /\ dialog = "open" /\ pc = "idle"
    /\ IF NoProducts(draft)
       THEN /\ msg' = Message("Please add at least one product", "", 0)
            /\ shipment_id' = NULL
            /\ UNCHANGED <<store, pc, next_i, next_j>>
       ELSE IF \E i \in 1..Len(draft) : ~FullyAssigned(draft[i])
       THEN /\ msg' = Message("units not assigned to farmers",
                              products[draft[FirstUnassigned(draft)].product_id],
                              Remaining(draft[FirstUnassigned(draft)]))
            /\ shipment_id' = NULL
            /\ UNCHANGED <<store, pc, next_i, next_j>>
       ELSE IF ~ok
       THEN /\ msg' = Message("Failed to save shipment", "", 0)
            /\ shipment_id' = NULL
            /\ UNCHANGED <<store, pc, next_i, next_j>>
       ELSE /\ shipments' = Append(shipments, "")
            /\ shipment_id' = Len(shipments) + 1
            /\ pc' = "saving"
            /\ next_i' = 1
            /\ next_j' = 0
            /\ msg' = NoMessage
            /\ UNCHANGED <<products, farmers, shipment_products, farmer_purchases,
                           transfers, returns>>
    /\ UNCHANGED <<dialog, draft, spin, current_product_idx, stock_data>>
    /\ UNCHANGED session

\* the row save_shipment writes next
NextProductRow ==
    [shipment_id |-> shipment_id, product_id |-> draft[next_i].product_id,
     unit_price |-> draft[next_i].unit_price, quantity |-> draft[next_i].quantity,
     subtotal |-> draft[next_i].subtotal]

NextFarmerRow ==
    [shipment_id |-> shipment_id, farmer_id |-> draft[next_i].farmers[next_j].farmer_id,
     product_id |-> draft[next_i].product_id,
     quantity |-> draft[next_i].farmers[next_j].quantity,
     unit_price |-> draft[next_i].farmers[next_j].unit_price,
     total_paid |-> draft[next_i].farmers[next_j].total_paid]

\* the REFERENCES clauses on the row save_shipment writes next
NextRowReferences ==
    IF next_j = 0
    THEN shipment_products_references(NextProductRow)
    ELSE farmer_purchases_references(NextFarmerRow)

\* save_shipment, one further execute_update (each commits on its own connection):
\* the line item's row, then one row per farmer; after the last one, accept()
save_insert(ok) ==
    /\ pc = "saving"
    /\ IF ~(ok /\ NextRowReferences)
       THEN /\ msg' = Message("Failed to save shipment",
                              ErrorText(ok, NextRowReferences), 0)
            /\ pc' = "idle"
            /\ UNCHANGED <<store, dialog, draft, spin, current_product_idx, shipment_id,
                           next_i, next_j>>
       ELSE /\ IF next_j = 0
               THEN /\ shipment_products' = Append(shipment_products, NextProductRow)
                    /\ UNCHANGED farmer_purchases
               ELSE /\ farmer_purchases' = Append(farmer_purchases, NextFarmerRow)
                    /\ UNCHANGED shipment_products
            /\ UNCHANGED <<products, farmers, shipments, transfers, returns>>
            /\ IF next_j < Len(draft[next_i].farmers)
               THEN /\ next_j' = next_j + 1
                    /\ UNCHANGED <<dialog, draft, spin, current_product_idx, pc,
                                   shipment_id, next_i, msg>>
               ELSE IF next_i < Len(draft)
               THEN /\ next_i' = next_i + 1
                    /\ next_j' = 0
                    /\ UNCHANGED <<dialog, draft, spin, current_product_idx, pc,
                                   shipment_id, msg>>
               ELSE /\ msg' = Message("Shipment saved successfully with farmer assignments",
                                      "", shipment_id)
                    /\ dialog' = "closed"
                    /\ draft' = <<>>
                    /\ spin' = NoForm
                    /\ current_product_idx' = NULL
                    /\ pc' = "idle"
                    /\ next_i' = 0
                    /\ next_j' = 0
                    /\ UNCHANGED shipment_id
    /\ UNCHANGED <<stock_data, session>>

\* the Cancel button: QDialog.reject
reject ==
    /\ dialog = "open" /\ pc = "idle"
    /\ dialog' = "closed"
    /\ draft' = <<>>
    /\ spin' = NoForm
    /\ current_product_idx' = NULL
    /\ msg' = NoMessage
    /\ UNCHANGED <<store, pc, shipment_id, next_i, next_j, stock_data>>
    /\ UNCHANGED session

\* the process is killed (at any point, also between two inserts of a save) and
\* started again: main() builds Database(), which runs init_database
restart ==
    /\ dialog = "open" \/ pc = "saving"
    /\ StoreIs(init_database(CurrentDb))
    /\ dialog' = "closed"
    /\ draft' = <<>>
    /\ spin' = NoForm
    /\ current_product_idx' = NULL
    /\ pc' = "idle"
    /\ shipment_id' = NULL
    /\ next_i' = 0
    /\ next_j' = 0
    /\ stock_data' = <<>>
    /\ msg' = NoMessage
    /\ logged_in' = ""
    /\ current_user' = NoUser
    /\ view' = ""

(***************************************************************************)
(* Direct sales, transfers and returns.  ok is whether the handler's       *)
(* execute_update succeeds (it raises on a database error).                *)
(***************************************************************************)
\* ManageWidget.direct_sell: a farmer purchase with no shipment
DirectSaleRow(farmer_id, product_id, quantity, unit_price) ==
    [shipment_id |-> NULL, farmer_id |-> farmer_id, product_id |-> product_id,
     quantity |-> quantity, unit_price |-> unit_price,
     total_paid |-> quantity * unit_price]

\* on success the handler runs load_stock again
direct_sell(farmer_id, product_id, quantity, unit_price, ok) ==
    /\ dialog = "closed" /\ pc = "idle"
    /\ UNCHANGED <<products, farmers, shipments, shipment_products, transfers,
                   returns, dialog, draft, spin, current_product_idx, pc, shipment_id,
                   next_i, next_j>>
    /\ LET row == DirectSaleRow(farmer_id, product_id, quantity, unit_price)
       IN  IF farmer_id = NULL \/ product_id = NULL
           THEN /\ msg' = Message("Please select farmer and product", "", 0)
                /\ UNCHANGED <<farmer_purchases, stock_data>>
           ELSE IF ok /\ farmer_purchases_references(row)
           THEN /\ farmer_purchases' = Append(farmer_purchases, row)
                /\ msg' = Message("Direct sale completed successfully", "", 0)
                /\ stock_data' = StockData'
           ELSE /\ msg' = Message("Failed to complete sale",
                                  ErrorText(ok, farmer_purchases_references(row)), 0)
                /\ UNCHANGED <<farmer_purchases, stock_data>>
    /\ UNCHANGED session

\* the store after TransferDialog.transfer_products has recorded a transfer
TransferRecorded(db, from_farmer_id, to_farmer_id, product_id, quantity) ==
    [db EXCEPT !.transfers = Append(@,
        [from_farmer_id |-> from_farmer_id, to_farmer_id |-> to_farmer_id,
         product_id |-> product_id, quantity |-> quantity])]

\* transfer_products without its comparison of the two farmers
transfer_products_unchecked(from_farmer_id, to_farmer_id, product_id, quantity, ok) ==
    /\ dialog = "closed" /\ pc = "idle"
    /\ LET row == [from_farmer_id |-> from_farmer_id, to_farmer_id |-> to_farmer_id,
                   product_id |-> product_id, quantity |-> quantity]
       IN  IF ok /\ transfers_references(row)
           THEN /\ StoreIs(TransferRecorded(CurrentDb, from_farmer_id,
                                            to_farmer_id, product_id, quantity))
                /\ msg' = Message("Transfer completed successfully", "", 0)
           ELSE /\ msg' = Message("Failed to complete transfer",
                                  ErrorText(ok, transfers_references(row)), 0)
                /\ UNCHANGED store
    /\ UNCHANGED ui
    /\ UNCHANGED session

transfer_products(from_farmer_id, to_farmer_id, product_id, quantity, ok) ==
    /\ dialog = "closed" /\ pc = "idle"
    /\ IF from_farmer_id = to_farmer_id
       THEN /\ msg' = Message("Cannot transfer to the same farmer", "", 0)
            /\ UNCHANGED store
       ELSE LET row == [from_farmer_id |-> from_farmer_id,
                        to_farmer_id |-> to_farmer_id,
                        product_id |-> product_id, quantity |-> quantity]
            IN  IF ok /\ transfers_references(row)
                THEN /\ StoreIs(TransferRecorded(CurrentDb, from_farmer_id,
                                                 to_farmer_id, product_id, quantity))
                     /\ msg' = Message("Transfer completed successfully", "", 0)
                ELSE /\ msg' = Message("Failed to complete transfer",
                                       ErrorText(ok, transfers_references(row)), 0)
                     /\ UNCHANGED store
    /\ UNCHANGED ui
    /\ UNCHANGED session

\* ReturnDialog.record_return
record_return(farmer_id, product_id, quantity, refund_amount, ok) ==
    /\ dialog = "closed" /\ pc = "idle"
    /\ LET row == [farmer_id |-> farmer_id, product_id |-> product_id,
                   quantity |-> quantity, refund_amount |-> refund_amount]
       IN  IF ok /\ returns_references(row)
           THEN /\ returns' = Append(returns, row)
                /\ msg' = Message("Return recorded successfully", "", 0)
           ELSE /\ msg' = Message("Failed to record return",
                                  ErrorText(ok, returns_references(row)), 0)
                /\ UNCHANGED returns
    /\ UNCHANGED <<products, farmers, shipments, shipment_products, farmer_purchases,
                   transfers, ui>>
    /\ UNCHANGED session

\* Database.execute_update on an INSERT statement of the handlers above: the row
\* is appended unless a REFERENCES clause fails, and then the exception is raised
\* to the caller (msg holds its text)
execute_update(table, row, ok) ==
    /\ dialog = "closed" /\ pc = "idle"
    /\ LET references ==
               CASE table = "farmer_purchases" -> farmer_purchases_references(row)
                 [] table = "transfers" -> transfers_references(row)
                 [] table = "returns" -> returns_references(row)
       IN  IF ok /\ references
           THEN /\ farmer_purchases' =
                       IF table = "farmer_purchases"
                       THEN Append(farmer_purchases, row) ELSE farmer_purchases
                /\ transfers' =
                       IF table = "transfers" THEN Append(transfers, row) ELSE transfers
                /\ returns' =
                       IF table = "returns" THEN Append(returns, row) ELSE returns
                /\ msg' = NoMessage
           ELSE /\ msg' = Message("", ErrorText(ok, references), 0)
                /\ UNCHANGED <<farmer_purchases, transfers, returns>>
    /\ UNCHANGED <<products, farmers, shipments, shipment_products, ui>>
    /\ UNCHANGED session

\* a query that removes the returns it has counted
execute_query_clearing(db) == [db EXCEPT !.returns = <<>>]

\* Database.execute_query: the database after a SELECT has run on a connection
\* of its own, which is closed without a commit
execute_query(db) == db

\* MainWindow.show_manage: ManageWidget(self.db), whose __init__ runs load_stock
show_manage ==
    /\ dialog = "closed" /\ pc = "idle"
    /\ StoreIs(execute_query(CurrentDb))
    /\ stock_data' = StockData'
    /\ msg' = NoMessage
    /\ UNCHANGED <<dialog, draft, spin, current_product_idx, pc, shipment_id, next_i,
                   next_j>>
    /\ UNCHANGED session

(***************************************************************************)
(* Spec: the whole program, the operator's inputs drawn from small sets.   *)
(* A handler that would write or draft a row runs only while the row       *)
(* budget has room; a handler that rejects its input always runs.          *)
(***************************************************************************)
AddShipment == ShipmentRoom /\ add_shipment

AddProduct ==
    \E product_id \in {1, 2}, quantity \in {1, 2} :
        /\ add_product_to_shipment(product_id, 5000, quantity)
        /\ Room \/ draft' = draft

SelectProduct ==
    \E current_row \in 1..Len(draft) : select_product_for_farmers(current_row)

AssignFarmer ==
    \E farmer_id \in {1, 2}, quantity \in {40, 60, 100} :
        /\ assign_to_farmer(farmer_id, quantity, 6500)
        /\ Room \/ draft' = draft

SaveShipment ==
    \E ok \in BOOLEAN :
        /\ save_shipment(ok)
        /\ ShipmentRoom \/ shipments' = shipments

SaveInsert == \E ok \in BOOLEAN : save_insert(ok)

DirectSell ==
    \E ok \in BOOLEAN : Room /\ direct_sell(2, 1, 1000, 6000, ok)

TransferProducts ==
    \E to_farmer_id \in {1, 2}, ok \in BOOLEAN :
        /\ transfer_products(1, to_farmer_id, 1, 500, ok)
        /\ Room \/ to_farmer_id = 1

RecordReturn ==
    \E quantity \in {1000, 6000}, ok \in BOOLEAN :
        Room /\ record_return(1, 1, quantity, 0, ok)

Next ==
    \/ AddShipment
    \/ AddProduct
    \/ SelectProduct
    \/ AssignFarmer
    \/ SaveShipment
    \/ SaveInsert
    \/ reject
    \/ restart
    \/ DirectSell
    \/ TransferProducts
    \/ RecordReturn

Spec == Init /\ [][Next]_vars

(***************************************************************************)
(* SpecDraft: the shipment dialog alone, with three farmers, two selling   *)
(* prices and quantities whose float sums differ from their decimal sums.  *)
(***************************************************************************)
DraftAddProduct ==
    \E product_id \in {1, 2} :
        /\ add_product_to_shipment(product_id, 5000, 1)
        /\ Room \/ draft' = draft

\* the assignment forms entered: <<quantity, selling price>>
DraftForms ==
    {<<10, 6500>>, <<34, 6500>>, <<56, 7000>>, <<90, 6500>>, <<100, 7000>>}

DraftAssignFarmer ==
    \E farmer_id \in FarmerIds, form \in DraftForms :
        /\ assign_to_farmer(farmer_id, form[1], form[2])
        /\ Room \/ draft' = draft

NextDraft ==
    \/ AddShipment
    \/ DraftAddProduct
    \/ SelectProduct
    \/ DraftAssignFarmer
    \/ SaveShipment
    \/ SaveInsert
    \/ reject
    \/ restart

SpecDraft == Init /\ [][NextDraft]_vars

(***************************************************************************)
(* SpecSave: the shipment dialog with drafts of several line items and     *)
(* farmers, saved, failed and saved again.  Each farmer is offered one     *)
(* quantity; 0.06 + 0.57 + 0.37 is 0.9999999999999999 in binary64.         *)
(***************************************************************************)
\* the dialog is opened on the store as initialized
SaveAddShipment ==
    /\ Len(shipments) = Len(init_database(EmptyDb).shipments)
    /\ add_shipment

SaveAddProduct ==
    \E product_id \in {1, 2} :
        /\ add_product_to_shipment(product_id, 5000, 1)
        /\ DraftRows(draft) < MaxDraftRows \/ draft' = draft

\* the assignment forms entered: <<farmer_id, quantity>>
SaveForms == {<<1, 6>>, <<2, 57>>, <<3, 37>>}

SaveAssignFarmer ==
    \E form \in SaveForms :
        /\ assign_to_farmer(form[1], form[2], 6500)
        /\ DraftRows(draft) < MaxDraftRows \/ draft' = draft

RetrySaveShipment ==
    \E ok \in BOOLEAN :
        /\ save_shipment(ok)
        /\ Len(shipments') <= MaxSaved

NextSave ==
    \/ SaveAddShipment
    \/ SaveAddProduct
    \/ SelectProduct
    \/ SaveAssignFarmer
    \/ RetrySaveShipment
    \/ SaveInsert
    \/ reject

SpecSave == Init /\ [][NextSave]_vars

(***************************************************************************)
(* Products, farmers and the login.  ShipmentManager.py is one program;    *)
(* main.py is a second one over the same database, built from the widgets  *)
(* of ui_widgets_1 and ui_widgets_2 (its Database is taken to be the class  *)
(* of ShipmentManager.py).  Names are strings; str.strip and SQL LOWER are  *)
(* tabulated on the names the model enters.                                *)
(***************************************************************************)
\* ui_widgets_1.MAX_INPUT_LENGTH
MAX_INPUT_LENGTH == 200

\* str.strip()
strip(name) ==
    CASE name = " maize " -> "maize"
      [] name = " admin " -> "admin"
      [] name = " " -> ""
      [] OTHER -> name

\* SQL LOWER()
LOWER(name) ==
    CASE name = "Tomato" -> "tomato"
      [] name = "Potato" -> "potato"
      [] name = "Onion" -> "onion"
      [] name = "Maize" -> "maize"
      [] name = "Farmer A" -> "farmer a"
      [] name = "Farmer B" -> "farmer b"
      [] name = "Farmer C" -> "farmer c"
      [] name = "Farmer D" -> "farmer d"
      [] OTHER -> name

\* the users table after init_database: one row, admin (the password stands for
\* its SHA-256 hash)
users == {[username |-> "admin", password |-> "password123"]}

\* name TEXT UNIQUE: the insert raises when a row has exactly this name
NameTaken(names, name) == \E i \in 1..Len(names) : names[i] = name

\* ProductsWidget.add_product of ShipmentManager.py: pressed_ok is the input
\* dialog's OK, ok is whether the database accepts the statement
add_product(name, pressed_ok, ok) ==
    /\ dialog = "closed" /\ pc = "idle"
    /\ IF pressed_ok /\ name # ""
       THEN IF ok /\ ~NameTaken(products, name)
            THEN /\ products' = Append(products, name)
                 /\ msg' = Message("Product added successfully", "", 0)
            ELSE /\ msg' = Message("Failed to add product", "", 0)
                 /\ UNCHANGED products
       ELSE /\ msg' = NoMessage
            /\ UNCHANGED products
    /\ UNCHANGED <<farmers, shipments, shipment_products, farmer_purchases, transfers,
                   returns, ui, session>>

\* FarmersWidget.add_farmer, the same code in ShipmentManager.py and ui_widgets_2
add_farmer(name, pressed_ok, ok) ==
    /\ dialog = "closed" /\ pc = "idle"
    /\ IF pressed_ok /\ name # ""
       THEN IF ok /\ ~NameTaken(farmers, name)
            THEN /\ farmers' = Append(farmers, name)
                 /\ msg' = Message("Farmer added successfully", "", 0)
            ELSE /\ msg' = Message("Failed to add farmer", "", 0)
                 /\ UNCHANGED farmers
       ELSE /\ msg' = NoMessage
            /\ UNCHANGED farmers
    /\ UNCHANGED <<products, shipments, shipment_products, farmer_purchases, transfers,
                   returns, ui, session>>

\* ShipmentsWidget.__init__ / ProductsWidget.__init__ of ui_widgets_1:
\* "current_user or {'username': 'guest', 'role': 'viewer'}"
WidgetUser(user) ==
    IF user = NoUser THEN [username |-> "guest", role |-> "viewer"] ELSE user

\* LoginDialog.validate_login, and on accept main(): MainWindow(db), whose
\* __init__ calls show_shipments
validate_login(username, password) ==
    /\ logged_in = ""
    /\ IF strip(username) = "" \/ password = ""
       THEN /\ msg' = Message("Please enter both username and password", "", 0)
            /\ UNCHANGED session
       ELSE IF [username |-> strip(username), password |-> password] \in users
       THEN /\ logged_in' = strip(username)
            /\ view' = "shipments"
            /\ current_user' = WidgetUser(NoUser)
            /\ msg' = NoMessage
       ELSE /\ msg' = Message("Invalid username or password", "", 0)
            /\ UNCHANGED session
    /\ UNCHANGED <<store, ui>>

\* MainWindow.show_shipments of main.py: ShipmentsWidget(self.db)
show_shipments ==
    /\ logged_in # ""
    /\ view' = "shipments"
    /\ current_user' = WidgetUser(NoUser)
    /\ msg' = NoMessage
    /\ UNCHANGED <<store, ui, logged_in>>

\* MainWindow.show_products of main.py: ProductsWidget(self.db)
show_products ==
    /\ logged_in # ""
    /\ view' = "products"
    /\ current_user' = WidgetUser(NoUser)
    /\ msg' = NoMessage
    /\ UNCHANGED <<store, ui, logged_in>>

\* MainWindow.show_farmers of main.py: FarmersWidget(self.db) holds no user
show_farmers ==
    /\ logged_in # ""
    /\ view' = "farmers"
    /\ current_user' = NoUser
    /\ msg' = NoMessage
    /\ UNCHANGED <<store, ui, logged_in>>

\* MainWindow.logout: the window is closed
logout ==
    /\ logged_in # ""
    /\ logged_in' = ""
    /\ view' = ""
    /\ current_user' = NoUser
    /\ msg' = NoMessage
    /\ UNCHANGED <<store, ui>>

\* the role test of ui_widgets_1: "role not in ('admin', 'manager')"
MayMutate(user) == user.role \in {"admin", "manager"}

\* ProductsWidget._product_exists: LOWER(name) = LOWER(?) on name.strip(); a
\* failed query counts as "exists"
product_exists(name, query_ok) ==
    IF query_ok
    THEN \E i \in 1..Len(products) : LOWER(products[i]) = LOWER(strip(name))
    ELSE TRUE

\* ProductsWidget.add_product of ui_widgets_1: pressed_ok and confirm are the
\* answers to its two dialogs, query_ok and ok whether its query and its insert
\* succeed
ui_widgets_1_add_product(name, pressed_ok, query_ok, confirm, ok) ==
    /\ view = "products"
    /\ IF ~MayMutate(current_user)
       THEN /\ msg' = Message("You do not have permission to add products.", "", 0)
            /\ UNCHANGED products
       ELSE IF ~pressed_ok
       THEN /\ msg' = NoMessage
            /\ UNCHANGED products
       ELSE IF strip(name) = ""
       THEN /\ msg' = Message("Product name cannot be empty.", "", 0)
            /\ UNCHANGED products
       ELSE IF Len(strip(name)) > MAX_INPUT_LENGTH
       THEN /\ msg' = Message("Product name too long", "", MAX_INPUT_LENGTH)
            /\ UNCHANGED products
       ELSE IF product_exists(strip(name), query_ok)
       THEN /\ msg' = Message("This product already exists.", "", 0)
            /\ UNCHANGED products
       ELSE IF ~confirm
       THEN /\ msg' = NoMessage
            /\ UNCHANGED products
       ELSE IF ok /\ ~NameTaken(products, strip(name))
       THEN /\ products' = Append(products, strip(name))
            /\ msg' = Message("Product added successfully", "", 0)
       ELSE /\ msg' = Message("Failed to add product: operation failed.", "", 0)
            /\ UNCHANGED products
    /\ UNCHANGED <<farmers, shipments, shipment_products, farmer_purchases, transfers,
                   returns, ui, session>>

\* ShipmentsWidget.add_shipment of ui_widgets_1: a placeholder behind the role
\* test; reply is the answer to its question
ui_widgets_1_add_shipment(reply) ==
    /\ view = "shipments"
    /\ IF ~MayMutate(current_user)
       THEN msg' = Message("You do not have permission to add shipments.", "", 0)
       ELSE IF reply
       THEN msg' = Message("Shipment creation dialog would open here", "", 0)
       ELSE msg' = NoMessage
    /\ UNCHANGED <<store, ui, session>>

\* FarmersWidget.add_farmer of ui_widgets_2, shown by main.py
ui_widgets_2_add_farmer(name, pressed_ok, ok) ==
    /\ view = "farmers"
    /\ add_farmer(name, pressed_ok, ok)

(***************************************************************************)
(* SpecCatalog: the login and the product and farmer entry points of both  *)
(* programs.                                                               *)
(***************************************************************************)
\* the model's cap on the catalog: one more product or farmer may be added
CatalogRoom ==
    Len(products) + Len(farmers)
        < Len(init_database(EmptyDb).products) + Len(init_database(EmptyDb).farmers)
          + MaxCatalog

ProductNames == {"", "Tomato", "tomato", " maize "}
FarmerNames == {"Farmer A", "farmer a", "Farmer D"}

ValidateLogin ==
    \E form \in {<<"admin", "password123">>, <<" admin ", "password123">>,
                  <<"admin", "letmein">>, <<"guest", "guest">>, <<" ", "">>} :
        validate_login(form[1], form[2])

\* ShipmentManager.py is used while the window of main.py is not open
AddProductName ==
    \E name \in ProductNames, pressed_ok \in BOOLEAN, ok \in BOOLEAN :
        /\ view = ""
        /\ add_product(name, pressed_ok, ok)
        /\ CatalogRoom \/ products' = products

AddFarmerName ==
    \E name \in FarmerNames, pressed_ok \in BOOLEAN, ok \in BOOLEAN :
        /\ view = ""
        /\ add_farmer(name, pressed_ok, ok)
        /\ CatalogRoom \/ farmers' = farmers

HardenedAddProduct ==
    \E name \in ProductNames, pressed_ok \in BOOLEAN, query_ok \in BOOLEAN,
       confirm \in BOOLEAN, ok \in BOOLEAN :
        /\ ui_widgets_1_add_product(name, pressed_ok, query_ok, confirm, ok)
        /\ CatalogRoom \/ products' = products

HardenedAddShipment == \E reply \in BOOLEAN : ui_widgets_1_add_shipment(reply)

HardenedAddFarmer ==
    \E name \in FarmerNames, pressed_ok \in BOOLEAN, ok \in BOOLEAN :
        /\ ui_widgets_2_add_farmer(name, pressed_ok, ok)
        /\ CatalogRoom \/ farmers' = farmers

NextCatalog ==
    \/ ValidateLogin
    \/ show_shipments
    \/ show_products
    \/ show_farmers
    \/ logout
    \/ AddProductName
    \/ AddFarmerName
    \/ HardenedAddProduct
    \/ HardenedAddShipment
    \/ HardenedAddFarmer

SpecCatalog == Init /\ [][NextCatalog]_vars

(***************************************************************************)
(* SpecStore: the stock tab and the handlers that write one row, and       *)
(* Database.execute_update called with their INSERT statements on rows     *)
(* whose keys are ids of rows or an id that no row has (the handlers take  *)
(* their ids from combo boxes filled from the tables, which offer no such  *)
(* id).                                                                    *)
(***************************************************************************)
StoreRoom == RowsWritten < MaxStore

StoreDirectSell ==
    \E ok \in BOOLEAN : StoreRoom /\ direct_sell(2, 1, 1000, 6000, ok)

StoreTransferProducts ==
    \E to_farmer_id \in {1, 2}, ok \in BOOLEAN :
        /\ transfer_products(1, to_farmer_id, 1, 500, ok)
        /\ StoreRoom \/ transfers' = transfers

StoreRecordReturn ==
    \E ok \in BOOLEAN : StoreRoom /\ record_return(1, 1, 1000, 0, ok)

\* the rows handed to execute_update: an allocation of the first shipment, a
\* direct sale, a transfer and a return
InsertedRows(farmer_id, other_farmer_id, product_id) ==
    {<<"farmer_purchases",
       [shipment_id |-> 1, farmer_id |-> farmer_id, product_id |-> product_id,
        quantity |-> 1000, unit_price |-> 6500, total_paid |-> 6500000]>>,
     <<"farmer_purchases", DirectSaleRow(farmer_id, product_id, 1000, 6000)>>,
     <<"transfers",
       [from_farmer_id |-> farmer_id, to_farmer_id |-> other_farmer_id,
        product_id |-> product_id, quantity |-> 500]>>,
     <<"returns",
       [farmer_id |-> farmer_id, product_id |-> product_id, quantity |-> 1000,
        refund_amount |-> 0]>>}

\* the keys of the rows: <<farmer, other farmer, product>>
InsertedKeys ==
    {<<1, 2, 1>>, <<Len(farmers) + 1, 2, 1>>, <<1, Len(farmers) + 1, 1>>,
     <<1, 2, Len(products) + 1>>}

ExecuteUpdate ==
    \E keys \in InsertedKeys, ok \in BOOLEAN :
        \E statement \in InsertedRows(keys[1], keys[2], keys[3]) :
            /\ execute_update(statement[1], statement[2], ok)
            /\ StoreRoom \/ UNCHANGED store

NextStore ==
    \/ StoreDirectSell
    \/ StoreTransferProducts
    \/ StoreRecordReturn
    \/ ExecuteUpdate
    \/ show_manage

SpecStore == Init /\ [][NextStore]_vars

(***************************************************************************)
(* SpecHistory: every handler that writes to the store, one shipment       *)
(* dialog and the restart of the program, each with one input.             *)
(***************************************************************************)
HistoryRoom == RowsWritten + DraftRows(draft) < MaxHistory

HistoryAddProduct ==
    /\ add_product_to_shipment(1, 5000, 1)
    /\ HistoryRoom \/ draft' = draft

HistoryAssignFarmer ==
    /\ assign_to_farmer(1, 100, 6500)
    /\ HistoryRoom \/ draft' = draft

HistoryDirectSell ==
    \E ok \in BOOLEAN : HistoryRoom /\ direct_sell(2, 1, 1000, 6000, ok)

HistoryTransferProducts ==
    \E ok \in BOOLEAN : HistoryRoom /\ transfer_products(1, 2, 1, 500, ok)

HistoryRecordReturn ==
    \E ok \in BOOLEAN : HistoryRoom /\ record_return(1, 1, 1000, 0, ok)

\* one product and one farmer are added (a second insert of the name fails)
HistoryAddProductName == \E ok \in BOOLEAN : add_product("Maize", TRUE, ok)

HistoryAddFarmerName == \E ok \in BOOLEAN : add_farmer("Farmer D", TRUE, ok)

NextHistory ==
    \/ SaveAddShipment
    \/ HistoryAddProduct
    \/ SelectProduct
    \/ HistoryAssignFarmer
    \/ SaveShipment
    \/ SaveInsert
    \/ reject
    \/ restart
    \/ HistoryDirectSell
    \/ HistoryTransferProducts
    \/ HistoryRecordReturn
    \/ HistoryAddProductName
    \/ HistoryAddFarmerName

SpecHistory == Init /\ [][NextHistory]_vars

(***************************************************************************)
(* SpecForm: the shipment dialog as the operator fills it in.  At a click  *)
(* each spin box shows what the program last set (init_ui, or the reset    *)
(* after the last accepted request) or a value typed over it, which the    *)
(* box binds to its range.                                                 *)
(***************************************************************************)
FormRoom == DraftRows(draft) < MaxForm

\* QDoubleSpinBox.value() in hundredths, QSpinBox.value(): as set, or typed
value(set, minimum, maximum, typed) ==
    {set} \cup {setValue(minimum, maximum, val) : val \in typed}

FormAddProduct ==
    \E product_id \in {1, 2},
       unit_price \in value(spin.unit_price_spin, 1, 1000000, {0, 5000}),
       quantity \in value(spin.quantity_spin, 1, 10000, {0, 2}) :
        /\ add_product_to_shipment(product_id, unit_price, quantity)
        /\ FormRoom \/ draft' = draft

FormAssignFarmer ==
    \E farmer_id \in {1, 2},
       quantity \in value(spin.farmer_quantity_spin, 1, 1000000, {0, 60, 100}),
       selling_price \in value(spin.selling_price_spin, 1, 1000000, {0, 6500}) :
        /\ assign_to_farmer(farmer_id, quantity, selling_price)
        /\ FormRoom \/ draft' = draft

NextForm ==
    \/ AddShipment
    \/ FormAddProduct
    \/ SelectProduct
    \/ FormAssignFarmer
    \/ reject

SpecForm == Init /\ [][NextForm]_vars

(***************************************************************************)
(* SpecSummary: the shipment dialog with drafts of two line items that are *)
(* saved: 0.60 at 65.00 to Farmer A and 0.40 at 70.00 to Farmer B, or all  *)
(* of a line item to one farmer.                                           *)
(***************************************************************************)
SummaryRoom == DraftRows(draft) < MaxSummary

SummaryAddProduct ==
    \E product_id \in {1, 2} :
        /\ add_product_to_shipment(product_id, 5000, 1)
        /\ SummaryRoom \/ draft' = draft

\* the assignment forms entered: <<farmer_id, quantity, selling price>>
SummaryForms == {<<1, 60, 6500>>, <<2, 40, 7000>>, <<1, 100, 6500>>}

SummaryAssignFarmer ==
    \E form \in SummaryForms :
        /\ assign_to_farmer(form[1], form[2], form[3])
        /\ SummaryRoom \/ draft' = draft

NextSummary ==
    \/ SaveAddShipment
    \/ SummaryAddProduct
    \/ SelectProduct
    \/ SummaryAssignFarmer
    \/ SaveShipment
    \/ SaveInsert
    \/ reject

SpecSummary == Init /\ [][NextSummary]_vars

(***************************************************************************)
(* Properties.                                                             *)
(***************************************************************************)
\* C1: allocation closure: every line item in the store has allocations of its
\* shipment and product that sum exactly to its quantity
C1_AllocationClosure ==
    \A i \in 1..Len(shipment_products) :
        LET line == shipment_products[i]
            allocations == SelectSeq(farmer_purchases,
                               LAMBDA row : /\ row.shipment_id = line.shipment_id
                                            /\ row.product_id = line.product_id)
        IN  SumQuantity(allocations) = 100 * line.quantity

\* the rows of shipment s in the store
RowsOf(s) ==
    <<SelectSeq(shipment_products, LAMBDA row : row.shipment_id = s),
      SelectSeq(farmer_purchases, LAMBDA row : row.shipment_id = s)>>

\* C2: atomic shipment commit: after a save that failed at one of its inserts, no
\* row of that shipment is in the store
C2_AtomicCommit ==
    (msg.text = "Failed to save shipment" /\ shipment_id # NULL) =>
        /\ Len(shipments) < shipment_id
        /\ RowsOf(shipment_id) = <<(<<>>), (<<>>)>>

\* the rows a complete save of draft d writes for shipment s
RECURSIVE DraftProductRows(_, _)
DraftProductRows(d, s) ==
    IF d = <<>> THEN <<>>
    ELSE <<[shipment_id |-> s, product_id |-> Head(d).product_id,
            unit_price |-> Head(d).unit_price, quantity |-> Head(d).quantity,
            subtotal |-> Head(d).subtotal]>> \o DraftProductRows(Tail(d), s)

RECURSIVE DraftFarmerRows(_, _)
DraftFarmerRows(d, s) ==
    IF d = <<>> THEN <<>>
    ELSE [j \in 1..Len(Head(d).farmers) |->
            [shipment_id |-> s, farmer_id |-> Head(d).farmers[j].farmer_id,
             product_id |-> Head(d).product_id,
             quantity |-> Head(d).farmers[j].quantity,
             unit_price |-> Head(d).farmers[j].unit_price,
             total_paid |-> Head(d).farmers[j].total_paid]]
         \o DraftFarmerRows(Tail(d), s)

\* C3: no partial shipment is observable: at every point between two inserts of a
\* save (where a crash or a reader sees the store), the store holds all the rows
\* of the shipment being saved
C3_NoPartialShipment ==
    pc = "saving" =>
        RowsOf(shipment_id) = <<DraftProductRows(draft, shipment_id),
                                DraftFarmerRows(draft, shipment_id)>>

\* C4: stock non-negativity: the stock query reports current_stock >= 0 for
\* every product
C4_StockNonNegative ==
    \A p \in ProductIds : load_stock(p).current_stock >= 0

\* C5: stock formula: the stock query's current_stock is bought minus sold minus
\* returned over the product's rows, each counted once
C5_StockFormula ==
    \A p \in ProductIds :
        load_stock(p).current_stock
            = 100 * SumQuantity(OfProduct(shipment_products, p))
              - SumQuantity(OfProduct(farmer_purchases, p))
              - SumQuantity(OfProduct(returns, p))

\* C6: the product listing's total_bought is the sum of the quantities of the
\* product's line items, whatever other rows the product has
C6_ListingTotalBought ==
    \A p \in ProductIds :
        load_products(p).total_bought = 100 * SumQuantity(OfProduct(shipment_products, p))

\* C7: a step that records a direct sale (a farmer purchase with a NULL shipment)
\* raises the stock query's total_sold of the product by the quantity sold, lowers
\* its current_stock by it, and leaves the stock query and the product listing
\* reporting the same current_stock
C7_DirectSaleLikeAllocation ==
    [][\A p \in ProductIds :
         (/\ Len(farmer_purchases') = Len(farmer_purchases) + 1
          /\ farmer_purchases'[Len(farmer_purchases')].shipment_id = NULL
          /\ farmer_purchases'[Len(farmer_purchases')].product_id = p)
         => LET sold == farmer_purchases'[Len(farmer_purchases')].quantity
            IN  /\ load_stock(p)'.total_sold = load_stock(p).total_sold + sold
                /\ load_stock(p)'.current_stock = load_stock(p).current_stock - sold
                /\ load_stock(p)'.current_stock = load_products(p)'.current_stock]_vars

\* C8: a step that records a transfer appends one row to transfers, changes no
\* other table, and leaves every product's stock position (stock query and
\* product listing) and every farmer's purchase total as they were
C8_TransferFrame ==
    [][transfers' # transfers
       => /\ Len(transfers') = Len(transfers) + 1
          /\ SubSeq(transfers', 1, Len(transfers)) = transfers
          /\ UNCHANGED <<products, farmers, shipments, shipment_products,
                         farmer_purchases, returns>>
          /\ \A p \in ProductIds :
                /\ load_stock(p)' = load_stock(p)
                /\ load_products(p)' = load_products(p)
          /\ \A f \in FarmerIds : load_farmers(f)' = load_farmers(f)]_vars

\* a transfer has been recorded while the store holds sales and a return
C8_Witness ==
    /\ msg.text = "Transfer completed successfully"
    /\ Len(transfers) >= 1
    /\ Len(returns) >= 1
    /\ Len(farmer_purchases) >= 2

\* C9: no double allocation: an assign request for a farmer who already has an
\* allocation on the selected line item is rejected, whatever its quantity and
\* price, and leaves the draft as it was
C9_NoDoubleAllocation ==
    [][\A farmer_id \in FarmerIds, form \in DraftForms :
         (/\ current_product_idx # NULL
          /\ \E j \in 1..Len(draft[current_product_idx].farmers) :
                draft[current_product_idx].farmers[j].farmer_id = farmer_id
          /\ assign_to_farmer(farmer_id, form[1], form[2]))
         => /\ draft' = draft
            /\ msg'.text = "Farmer already assigned to this product"]_vars

\* a second request for an assigned farmer has been rejected on a line item that
\* still had room for it
C9_Witness ==
    /\ msg.text = "Farmer already assigned to this product"
    /\ current_product_idx # NULL
    /\ Len(draft[current_product_idx].farmers) >= 1
    /\ Remaining(draft[current_product_idx]) >= 10

\* C10: over-allocation: a request for a farmer not yet on the line item is
\* rejected exactly when its quantity plus the quantities already assigned exceed
\* the line item's quantity (so a request for exactly the rest is accepted), and
\* the rejection reports the quantity that remains
C10_OverAllocation ==
    [][\A farmer_id \in FarmerIds, form \in DraftForms :
         (/\ current_product_idx # NULL
          /\ \A j \in 1..Len(draft[current_product_idx].farmers) :
                draft[current_product_idx].farmers[j].farmer_id # farmer_id
          /\ assign_to_farmer(farmer_id, form[1], form[2]))
         => LET product  == draft[current_product_idx]
                assigned == SumQuantity(product.farmers)
                exceeds  == form[1] + assigned > 100 * product.quantity
            IN  IF exceeds
                THEN /\ draft' = draft
                     /\ msg'.text = "Only units remaining for this product"
                     /\ msg'.number = 100 * product.quantity - assigned
                ELSE /\ draft' # draft
                     /\ msg' = NoMessage]_vars

\* C11: a request to add a line item for a product already in the draft is
\* rejected and leaves the draft as it was, so no draft and no shipment in the
\* store has two line items for one product
C11_NoDuplicateLineItem ==
    [][/\ \A product_id \in ProductIds, quantity \in {1, 2} :
            (/\ \E i \in 1..Len(draft) : draft[i].product_id = product_id
             /\ add_product_to_shipment(product_id, 5000, quantity))
            => /\ draft' = draft
               /\ msg'.text = "Product already added to shipment"
       /\ \A i, j \in 1..Len(draft') :
            draft'[i].product_id = draft'[j].product_id => i = j
       /\ \A i, j \in 1..Len(shipment_products') :
            (/\ shipment_products'[i].shipment_id = shipment_products'[j].shipment_id
             /\ shipment_products'[i].product_id = shipment_products'[j].product_id)
            => i = j]_vars

\* a second line item for a product of the draft has been refused
C11_Witness ==
    /\ msg.text = "Product already added to shipment"
    /\ Len(draft) >= 1

\* C12: a save of a draft in which some line item's allocations sum to less than
\* its quantity writes nothing and is rejected with an error that names a line
\* item with such a shortfall and reports its remainder (quantity minus
\* allocated sum)
C12_IncompleteDraftRejected ==
    [][\A ok \in BOOLEAN :
         (/\ \E i \in 1..Len(draft) :
                SumQuantity(draft[i].farmers) < 100 * draft[i].quantity
          /\ save_shipment(ok))
         => /\ UNCHANGED store
            /\ msg'.text = "units not assigned to farmers"
            /\ \E i \in 1..Len(draft) :
                  /\ SumQuantity(draft[i].farmers) < 100 * draft[i].quantity
                  /\ msg'.name = products[draft[i].product_id]
                  /\ msg'.number
                        = 100 * draft[i].quantity - SumQuantity(draft[i].farmers)]_vars

\* C13: a save of a draft with no line items is rejected and writes nothing to
\* the store: no shipment row is created and no insert is started
C13_EmptyDraftRejected ==
    [][\A ok \in BOOLEAN :
         (draft = <<>> /\ save_shipment(ok))
         => /\ UNCHANGED store
            /\ pc' = "idle"
            /\ msg'.text = "Please add at least one product"]_vars

\* the save of an empty draft has been refused
C13_Witness ==
    /\ msg.text = "Please add at least one product"
    /\ dialog = "open"
    /\ draft = <<>>

\* C14: safe retry: a save that fails with a persistence error leaves the draft
\* as it was, and when a save of the draft then completes the store holds, next
\* to what it held when the dialog was opened (under SpecSave: the store as
\* initialized), exactly one shipment with exactly the draft's line items and
\* allocations
C14_SafeRetry ==
    [][/\ msg'.text = "Failed to save shipment" => draft' = draft
       /\ (pc = "saving" /\ msg'.text = "Shipment saved successfully with farmer assignments")
          => /\ shipments' = Append(init_database(EmptyDb).shipments, "")
             /\ shipment_products' = init_database(EmptyDb).shipment_products
                    \o DraftProductRows(draft, shipment_id)
             /\ farmer_purchases' = init_database(EmptyDb).farmer_purchases
                    \o DraftFarmerRows(draft, shipment_id)]_vars

\* C15: no draft state is persisted: every step taken while the dialog is open
\* that does not start a save (adding a line item, selecting one, assigning a
\* farmer, a refused request, Cancel) leaves every table of the store as it was
C15_DraftNotPersisted ==
    [][(dialog = "open" /\ pc = "idle" /\ pc' = "idle") => UNCHANGED store]_vars

\* a draft holds a line item with a farmer assigned while the store is as it was
\* when the dialog was opened
C15_Witness ==
    /\ dialog = "open"
    /\ pc = "idle"
    /\ shipment_id = NULL
    /\ \E i \in 1..Len(draft) : Len(draft[i].farmers) >= 1
    /\ CurrentDb = init_database(EmptyDb)

\* the warnings with which the dialog refuses a request
Refusals ==
    {"Product already added to shipment", "Please select a product first",
     "Farmer already assigned to this product", "Only units remaining for this product",
     "Please add at least one product", "units not assigned to farmers"}

\* C16: a refused add-line-item, a refused assign-to-farmer (duplicate farmer,
\* over-allocation, no line item selected) and a refused save (empty or
\* incomplete draft) each leave the draft's line items and allocations as they
\* were
C16_RefusalKeepsDraft ==
    [][(dialog = "open" /\ msg'.text \in Refusals)
         => /\ draft' = draft
            /\ dialog' = "open"]_vars

\* an assignment has been refused on a draft that holds allocations
C16_Witness ==
    /\ dialog = "open"
    /\ msg.text = "Only units remaining for this product"
    /\ \E i \in 1..Len(draft) : Len(draft[i].farmers) >= 1

\* C17: the products table never holds two names that are equal ignoring letter
\* case: through every add-product entry point, creating a product whose name
\* equals an existing one up to case adds no row
C17_UniqueProductNames ==
    \A i, j \in 1..Len(products) :
        LOWER(products[i]) = LOWER(products[j]) => i = j

\* C18: the farmers table never holds two names that are equal ignoring letter
\* case: creating a farmer whose name equals an existing one up to case adds no
\* row
C18_UniqueFarmerNames ==
    \A i, j \in 1..Len(farmers) :
        LOWER(farmers[i]) = LOWER(farmers[j]) => i = j

\* C19: permission gating: while the principal at the program holds the role
\* viewer, or no role, no step changes the store
C19_PermissionGating ==
    [][~MayMutate(current_user) => UNCHANGED store]_vars

\* C20: after a successful login as admin, an add-product or add-shipment request
\* through the main window is not refused with a permission error
C20_AdminMayMutate ==
    [][(/\ logged_in = "admin"
        /\ \/ \E reply \in BOOLEAN : ui_widgets_1_add_shipment(reply)
           \/ \E name \in ProductNames, pressed_ok \in BOOLEAN, query_ok \in BOOLEAN,
                 confirm \in BOOLEAN, ok \in BOOLEAN :
                 ui_widgets_1_add_product(name, pressed_ok, query_ok, confirm, ok))
         => msg'.text \notin {"You do not have permission to add shipments.",
                              "You do not have permission to add products."}]_vars

\* the product and farmer keys of the rows of farmer_purchases (allocations and
\* direct sales), transfers and returns are ids of rows
ReferencesHold ==
    /\ \A i \in 1..Len(farmer_purchases) :
          /\ farmer_purchases[i].farmer_id \in FarmerIds
          /\ farmer_purchases[i].product_id \in ProductIds
    /\ \A i \in 1..Len(transfers) :
          /\ transfers[i].from_farmer_id \in FarmerIds
          /\ transfers[i].to_farmer_id \in FarmerIds
          /\ transfers[i].product_id \in ProductIds
    /\ \A i \in 1..Len(returns) :
          /\ returns[i].farmer_id \in FarmerIds
          /\ returns[i].product_id \in ProductIds

\* the row has a product or farmer key that is no id of a row
ReferencesUnknown(row) ==
    \/ row.product_id \notin ProductIds
    \/ \E column \in DOMAIN row \cap {"farmer_id", "from_farmer_id", "to_farmer_id"} :
          row[column] \notin FarmerIds

\* C21: referential integrity: an insert of an allocation, a direct sale, a
\* transfer or a return whose row references a product id or a farmer id that no
\* row of the store has raises an error and leaves every table as it was, and in
\* every state reached every product and farmer key of those tables is the id of
\* a product or farmer in the store
C21_ReferentialIntegrity ==
    [][/\ \A keys \in InsertedKeys, ok \in BOOLEAN :
            \A statement \in InsertedRows(keys[1], keys[2], keys[3]) :
                (/\ ReferencesUnknown(statement[2])
                 /\ execute_update(statement[1], statement[2], ok))
                => /\ UNCHANGED store
                   /\ msg'.name # ""
       /\ ReferencesHold']_vars

\* an insert has been refused for its foreign key while the store holds a sale, a
\* transfer or a return written after initialization
C21_Witness ==
    /\ msg = Message("", "FOREIGN KEY constraint failed", 0)
    /\ RowsWritten >= 1

\* C22: stock-availability check: a direct sale or a return whose quantity is
\* more than the product's current_stock (so that it would make it negative) is
\* rejected and leaves every table as it was
C22_StockAvailability ==
    [][\A ok \in BOOLEAN :
         /\ (/\ load_stock(1).current_stock - 1000 < 0
             /\ direct_sell(2, 1, 1000, 6000, ok))
            => /\ UNCHANGED store
               /\ msg'.text # "Direct sale completed successfully"
         /\ \A quantity \in {1000, 6000} :
               (/\ load_stock(1).current_stock - quantity < 0
                /\ record_return(1, 1, quantity, 0, ok))
               => /\ UNCHANGED store
                  /\ msg'.text # "Return recorded successfully"]_vars

\* C23: positive quantities and prices: every line item of a draft has an
\* integer quantity >= 1 and a unit price > 0, and every allocation of a draft
\* has a quantity > 0 and a unit price > 0, whatever sequence of add and assign
\* requests built the draft and whether the spin boxes were typed into or left
\* as the reset after the last accepted request set them
C23_PositiveDraft ==
    \A i \in 1..Len(draft) :
        /\ draft[i].quantity \in Nat
        /\ draft[i].quantity >= 1
        /\ draft[i].unit_price > 0
        /\ \A j \in 1..Len(draft[i].farmers) :
              /\ draft[i].farmers[j].quantity > 0
              /\ draft[i].farmers[j].unit_price > 0

\* a second line item and an allocation have been accepted at the values the
\* resets left in the spin boxes (0.01 for prices and farmer quantity, 1 for the
\* quantity)
C23_Witness ==
    /\ Len(draft) = 2
    /\ draft[2].unit_price = 1
    /\ draft[2].quantity = 1
    /\ \E i \in 1..Len(draft) :
          /\ Len(draft[i].farmers) = 1
          /\ draft[i].farmers[1].quantity = 1
          /\ draft[i].farmers[1].unit_price = 1

RECURSIVE SumQuantityTimesPrice(_)
SumQuantityTimesPrice(rows) ==
    IF rows = <<>> THEN 0
    ELSE Head(rows).quantity * Head(rows).unit_price
         + SumQuantityTimesPrice(Tail(rows))

\* C25: farmer totals: for every farmer the total of the farmer listing is the
\* sum of quantity times unit price over the farmer's allocations and direct
\* sales, each counted once; a farmer with no purchase has total 0
C25_FarmerTotals ==
    \A f \in FarmerIds :
        load_farmers(f).total_bought
            = SumQuantityTimesPrice(SelectSeq(farmer_purchases,
                                              LAMBDA row : row.farmer_id = f))

\* a shipment has allocated 0.60 at 65.00 to Farmer A and 0.40 at 65.00 to
\* Farmer B: A's total is the seeded 3250.00 plus 39.00, B's is 26.00 and
\* Farmer C, who bought nothing, has 0
C25_Witness ==
    /\ Len(farmer_purchases) = 3
    /\ load_farmers(1).total_bought = 32500000 + 60 * 6500
    /\ load_farmers(2).total_bought = 40 * 6500
    /\ load_farmers(3).total_bought = 0

\* C26: shipment summary: for every shipment the listing's total_paid is the sum
\* of total_paid over the shipment's allocations, each counted once whatever the
\* number of its line items, its product_count is the number of distinct
\* products among its line items and its farmer_count the number of distinct
\* farmers among its allocations
C26_ShipmentSummary ==
    \A s \in 1..Len(shipments) :
        LET lines == SelectSeq(shipment_products, LAMBDA row : row.shipment_id = s)
            allocations == SelectSeq(farmer_purchases, LAMBDA row : row.shipment_id = s)
        IN  /\ load_shipments(s).total_paid = SumTotalPaid(allocations)
            /\ load_shipments(s).product_count
                  = Cardinality({p \in ProductIds :
                        \E i \in 1..Len(lines) : lines[i].product_id = p})
            /\ load_shipments(s).farmer_count
                  = Cardinality({f \in FarmerIds :
                        \E i \in 1..Len(allocations) : allocations[i].farmer_id = f})

\* the products no line item, farmer purchase or return names
NoEvents ==
    {p \in ProductIds :
        /\ OfProduct(shipment_products, p) = <<>>
        /\ OfProduct(farmer_purchases, p) = <<>>
        /\ OfProduct(returns, p) = <<>>}

\* product p is a row of the stock query and of the product listing, all zero
ListedEmpty(p) ==
    /\ p \in DOMAIN StockData
    /\ StockData[p].name = products[p]
    /\ StockData[p].total_bought = 0
    /\ StockData[p].total_sold = 0
    /\ StockData[p].current_stock = 0
    /\ p \in DOMAIN ProductsData
    /\ ProductsData[p].name = products[p]
    /\ ProductsData[p].total_bought = 0
    /\ ProductsData[p].current_stock = 0

\* C27: a product with no events (no line item, no farmer purchase, no return)
\* is a row of the stock query and of the product listing with total_bought,
\* total_sold and current_stock 0, and a product the database accepts is
\* created and listed so although it has no events
C27_NewProductListed ==
    /\ [](\A p \in NoEvents : ListedEmpty(p))
    /\ [][\A name \in {"Maize"} :
            (add_product(name, TRUE, TRUE) /\ ~NameTaken(products, name))
                => /\ products' = Append(products, name)
                   /\ msg' = Message("Product added successfully", "", 0)
                   /\ (Len(products) \in NoEvents)'
                   /\ ListedEmpty(Len(products))']_vars

C27_Witness ==
    /\ msg = Message("Product added successfully", "", 0)
    /\ Len(products) > Len(init_database(EmptyDb).products)
    /\ Len(products) \in NoEvents
    /\ ListedEmpty(Len(products))
    /\ RowsWritten >= 1

\* the rows of a table are kept, in place and unmodified, among the rows of after
RowsKept(before, after) ==
    /\ Len(before) <= Len(after)
    /\ \A i \in 1..Len(before) : after[i] = before[i]

\* C28: history is append-only: no step deletes or modifies a row of products,
\* farmers, shipments, line items, farmer purchases, transfers or returns, each
\* table only grows, and initialization run again on the store, which is never
\* empty, adds no rows
C28_AppendOnly ==
    [][/\ RowsKept(products, products')
       /\ RowsKept(farmers, farmers')
       /\ RowsKept(shipments, shipments')
       /\ RowsKept(shipment_products, shipment_products')
       /\ RowsKept(farmer_purchases, farmer_purchases')
       /\ RowsKept(transfers, transfers')
       /\ RowsKept(returns, returns')
       /\ products # <<>>
       /\ init_database(CurrentDb) = CurrentDb
       /\ restart => UNCHANGED store]_vars

\* the program has been started again on a store it has written rows to
C28_Witness ==
    /\ RowsWritten >= 2
    /\ Len(products) > Len(init_database(EmptyDb).products)
    /\ dialog = "closed" /\ pc = "idle"
    /\ msg = NoMessage
    /\ init_database(CurrentDb) = CurrentDb

\* C29: draft allocation bound: in every state of a shipment draft the
\* quantities allocated of a line item sum to at most the line item's quantity,
\* as decimals and as the floats the dialog adds up, and no farmer has two
\* allocations of one line item
C29_DraftAllocationBound ==
    \A i \in 1..Len(draft) :
        LET product == draft[i]
        IN  /\ SumQuantity(product.farmers) <= 100 * product.quantity
            /\ ~FGt(total_assigned(product), FInt(product.quantity))
            /\ \A j, k \in 1..Len(product.farmers) :
                   product.farmers[j].farmer_id = product.farmers[k].farmer_id
                       => j = k

\* an allocation of 1.00 was refused for a line item of 1 that another farmer
\* has 0.60 of: 0.40 remain
C29_Witness ==
    /\ dialog = "open"
    /\ msg = Message("Only units remaining for this product", "", 40)
    /\ current_product_idx # NULL
    /\ draft[current_product_idx].quantity = 1
    /\ Len(draft[current_product_idx].farmers) = 1
    /\ SumQuantity(draft[current_product_idx].farmers) = 60

\* C30: a transfer from a farmer to the same farmer is refused with "Cannot
\* transfer to the same farmer" and adds no row to transfers, and every
\* transfer recorded has a from_farmer_id other than its to_farmer_id
C30_SameFarmerRejected ==
    /\ [](\A i \in 1..Len(transfers) :
             transfers[i].from_farmer_id # transfers[i].to_farmer_id)
    /\ [][\A farmer_id \in FarmerIds, ok \in BOOLEAN :
            transfer_products(farmer_id, farmer_id, 1, 500, ok)
                => /\ UNCHANGED store
                   /\ msg' = Message("Cannot transfer to the same farmer", "", 0)]_vars

\* a transfer to the same farmer has just been refused, after one was recorded
C30_Witness ==
    /\ msg = Message("Cannot transfer to the same farmer", "", 0)
    /\ transfers # <<>>

====
